---------------------------- MODULE Spec2Model ----------------------------
(***************************************************************************)
(* Model of cncjs-py-pendant: the joystick tracker (gamepad.py), the       *)
(* mapping model (command_mapping.py) and the per-tick command synthesizer *)
(* and control loop (pendant.py).                                          *)
(*                                                                         *)
(* Numbers.  An axis value is the float raw / 32767.0; the model keeps the *)
(* numerator raw and compares it with a threshold t (kept in tenths) by    *)
(* cross-multiplication, raw * 10 > t * 32767, which agrees with the float *)
(* comparison for every 16-bit raw and every threshold used here (no raw   *)
(* lands within 1e-5 of a threshold).  A step size is kept in tenths with  *)
(* its Python type (int or float), because str() of the product depends on *)
(* the type: 1 * 1 is "1", 0.5 * 2 is "1.0".                               *)
(***************************************************************************)
EXTENDS Integers, Sequences, FiniteSets, TLC

VARIABLES
  mapped_commands,  \* config.mapped_commands: the ordered mapping list
  gp,               \* the Gamepad object's fields
  thread,           \* gp.update_thread: the UpdateThread and where it stands
  dev,              \* the joystick device behind joystick_file
  main,             \* pendant.main / get_commands: position and locals
  rd,               \* a client of the Gamepad query API (been_pressed, ...)
  hist              \* history of events and reads, for the properties only

vars == <<mapped_commands, gp, thread, dev, main, rd, hist>>

-----------------------------------------------------------------------------
(* Bounds of the model *)

\* history counters of press events and of True reads stop counting here
MaxCount == 3

-----------------------------------------------------------------------------
(* command_mapping.py: the mapping model *)

MAX_AXIS == 32767
NEG_INF == -1000000

Abs(n) == IF n < 0 THEN -n ELSE n

\* a Python number: int or float, value tenths / 10
PyInt(n) == [float |-> FALSE, tenths |-> 10 * n]
PyFloat(t) == [float |-> TRUE, tenths |-> t]

\* input > threshold, input = raw / 32767.0, threshold = t / 10 or -math.inf
GreaterThan(raw, t) == IF t = NEG_INF THEN TRUE ELSE raw * 10 > t * MAX_AXIS
LessThan(raw, t) == IF t = NEG_INF THEN FALSE ELSE raw * 10 < t * MAX_AXIS

MagnitudeAxis(label, slow, mid, fast, slow_below, fast_above, trigger, use_abs) ==
  [label |-> label,
   slow_move_step |-> slow, mid_move_step |-> mid, fast_move_step |-> fast,
   slow_when_below |-> slow_below, fast_when_above |-> fast_above,
   trigger_if_above |-> trigger, use_absolute_input |-> use_abs]

has_triggered(self, input) ==
  LET x == IF self.use_absolute_input THEN Abs(input) ELSE input
  IN  GreaterThan(x, self.trigger_if_above)

\* the step chosen from the signed input, use_absolute_input ignored
travel_distance_signed(self, input) ==
  IF LessThan(input, self.slow_when_below) THEN self.slow_move_step
  ELSE IF GreaterThan(input, self.fast_when_above) THEN self.fast_move_step
  ELSE self.mid_move_step

travel_distance(self, input) ==
  LET x == IF self.use_absolute_input THEN Abs(input) ELSE input
  IN  IF LessThan(x, self.slow_when_below) THEN self.slow_move_step
      ELSE IF GreaterThan(x, self.fast_when_above) THEN self.fast_move_step
      ELSE self.mid_move_step

\* Optional[...] fields: <<>> is None, <<x>> is x; movement_axis "" is None
MappedCommand(button, axis, reverse, commands, direction, movement_axis, repeat, magnitude_axis) ==
  [button |-> button, axis |-> axis, reverse_axis_direction |-> reverse,
   commands |-> commands, direction |-> direction,
   movement_axis |-> movement_axis, repeat_if_pressed |-> repeat,
   magnitude_axis |-> magnitude_axis]

axis_direction_multiplier(self) == IF self.reverse_axis_direction THEN -1 ELSE 1

homing(button) ==
  MappedCommand(button, <<>>, FALSE, << <<"homing">> >>, <<>>, "", FALSE, <<>>)

zero(button) ==
  MappedCommand(button, <<>>, FALSE,
                << <<"gcode", "G90 X0 Y0">>, <<"gcode", "G90 Z0">> >>,
                <<>>, "", FALSE, <<>>)

set_zero(button) ==
  MappedCommand(button, <<>>, FALSE, << <<"gcode", "G10 L20 P1 X0 Y0 Z0">> >>,
                <<>>, "", FALSE, <<>>)

directional_buttons(movement_axis, positive_button, negative_button, magnitude_axis) ==
  << MappedCommand(positive_button, <<>>, FALSE, <<>>, <<1>>, movement_axis,
                   TRUE, <<magnitude_axis>>),
     MappedCommand(negative_button, <<>>, FALSE, <<>>, <<-1>>, movement_axis,
                   TRUE, <<magnitude_axis>>) >>

XY_L2_MAGNITUDE_AXIS ==
  MagnitudeAxis("L2", PyFloat(1), PyInt(1), PyInt(10), -2, 8, NEG_INF, FALSE)

xy_joystick_axis(label) ==
  MagnitudeAxis(label, PyFloat(1), PyInt(1), PyInt(10), 4, 8, 1, TRUE)

\* MappedCommand(axis=..., movement_axis=..., reverse_axis_direction=...)
AxisCommand(axis, movement_axis, reverse) ==
  MappedCommand("", <<axis>>, reverse, <<>>, <<>>, movement_axis, FALSE, <<>>)

-----------------------------------------------------------------------------
(* gamepad.py: the tracker's tables and state *)

\* the PS3 factory's name tables, restricted to the controls the mappings use
button_names == (10 :> "PS") @@ (15 :> "DPAD-LEFT") @@ (16 :> "DPAD-RIGHT")
axis_names == (0 :> "LEFT-X") @@ (2 :> "L2")

ButtonIdx == DOMAIN button_names
AxisIdx == DOMAIN axis_names

\* _setup_reverse_maps: name -> index
button_index == [n \in {button_names[i] : i \in ButtonIdx} |-> CHOOSE i \in ButtonIdx : button_names[i] = n]
axis_index == [n \in {axis_names[i] : i \in AxisIdx} |-> CHOOSE i \in AxisIdx : axis_names[i] = n]

EmptyMap == [x \in {} |-> FALSE]
Put(f, k, v) == [x \in (DOMAIN f) \cup {k} |-> IF x = k THEN v ELSE f[x]]

\* Gamepad.__init__
NewGamepad == [pressed_map |-> EmptyMap, was_pressed_map |-> EmptyMap, was_released_map |-> EmptyMap, axis_map |-> EmptyMap, button_event_maps |-> {}, moved_event_map |-> {}, connected |-> TRUE]

is_ready(g) == Cardinality(DOMAIN g.axis_map) + Cardinality(DOMAIN g.pressed_map) > 1

is_connected(g) == g.connected

-----------------------------------------------------------------------------
(* The joystick device: what joystick_file.read delivers.  As the kernel   *)
(* driver does, it replays one init record per control (buttons, then      *)
(* axes) before any live record.  A live button record changes the         *)
(* physical level (edge) or, on a device that repeats, reports the level   *)
(* it already has; an axis record carries any value of the device's grid.  *)

InitOrder == <<[kind |-> "B", index |-> 10], [kind |-> "B", index |-> 15], [kind |-> "B", index |-> 16], [kind |-> "A", index |-> 0], [kind |-> "A", index |-> 2]>>

\* raw axis values of the sticks in use: LEFT-X at rest, half right and full left; L2 released and half pulled
SticksInUse == (0 :> {-32767, 0, 16384}) @@ (2 :> {-32767, 0})

\* the sticks left alone: LEFT-X at rest, L2 released
SticksAtRest == (0 :> {0}) @@ (2 :> {-32767})

NoEvent == [type |-> "NONE", index |-> 0, value |-> 0, edge |-> FALSE]

InitRecords(d) ==
  LET c == InitOrder[d.inits + 1]
  IN  IF c.kind = "B"
      THEN {[type |-> "INIT_BUTTON", index |-> c.index, value |-> IF d.phys[c.index] THEN 1 ELSE 0, edge |-> FALSE]}
      ELSE {[type |-> "INIT_AXIS", index |-> c.index, value |-> v, edge |-> FALSE] : v \in d.grid[c.index]}

\* the buttons the operator works after the device is opened (DPAD-LEFT is
\* held or not when the device is opened and stays so)
LiveButtons == {10, 16}

LiveRecords(d) ==
  {[type |-> "BUTTON", index |-> b, value |-> IF d.phys[b] THEN 0 ELSE 1, edge |-> TRUE] : b \in LiveButtons}
  \cup (IF d.repeats THEN {[type |-> "BUTTON", index |-> b, value |-> IF d.phys[b] THEN 1 ELSE 0, edge |-> FALSE] : b \in LiveButtons} ELSE {})
  \cup UNION {{[type |-> "AXIS", index |-> a, value |-> v, edge |-> FALSE] : v \in d.grid[a]} : a \in AxisIdx}

\* a record whose type code is neither button nor axis, with or without the init bit
OtherRecord == [type |-> "OTHER", index |-> 0, value |-> 0, edge |-> FALSE]

\* a device that reports every control before any change of one (d.ordered),
\* or one whose changes may arrive before the report of the control
DeviceRecords(d) ==
  IF d.state # "open" THEN {}
  ELSE IF d.inits >= Len(InitOrder) THEN LiveRecords(d) \cup {OtherRecord}
  ELSE IF d.ordered THEN InitRecords(d) \cup {OtherRecord}
  ELSE InitRecords(d) \cup LiveRecords(d) \cup {OtherRecord}

Deliver(d, e) ==
  IF e.type \in {"INIT_BUTTON", "INIT_AXIS"} THEN [d EXCEPT !.inits = @ + 1]
  ELSE IF e.type = "BUTTON" THEN [d EXCEPT !.phys[e.index] = (e.value # 0)]
  ELSE d

-----------------------------------------------------------------------------
(* History kept for the properties: it is written beside the program's     *)
(* state and never read by the program.                                    *)

NewHist(track, obs) == [track |-> track, obs |-> obs, presses |-> 0, true_reads |-> 0, since_read |-> FALSE, rel_since_read |-> FALSE, midcall_press |-> FALSE, lost |-> FALSE, fires |-> 0, changed |-> FALSE, ticked |-> FALSE, quiet |-> FALSE, dropped |-> 0, after_drop |-> FALSE, stops |-> 0, after_stop |-> 0, left_pending |-> {}, carried |-> {}]

Bump(n) == IF n > MaxCount THEN n ELSE n + 1
UpTo2(n) == IF n >= 2 THEN n ELSE n + 1

TrackerState(g) == <<g.pressed_map, g.was_pressed_map, g.was_released_map, g.axis_map>>

\* the records read by the thread after stop_background_updates cleared `running`
AfterStop(h) == IF thread.pc = "read" /\ thread.started /\ ~thread.running THEN [h EXCEPT !.after_stop = UpTo2(@)] ELSE h

\* a write of update_state
HistWrite(h, g1, g2) ==
  IF h.track = "quiet" THEN [h EXCEPT !.changed = @ \/ TrackerState(g1) # TrackerState(g2)]
  ELSE IF h.track = "dev" THEN AfterStop([h EXCEPT !.after_drop = @ \/ h.dropped > 0])
  ELSE IF h.track = "short" /\ thread.pc = "init_was_pressed" THEN [h EXCEPT !.left_pending = {k \in @ : button_index[mapped_commands[k].button] # thread.ev.index}]
  ELSE h

HistButtonEvent(h, e, g1, g2) ==
  LET h0 == HistWrite(h, g1, g2)
      h1 == IF h.track = "fires" /\ e.edge /\ e.value # 0 /\ e.index = 10 THEN [h0 EXCEPT !.fires = 0] ELSE h0
  IN  IF h.track # "reads" \/ e.index # h.obs THEN h1
      ELSE IF e.value # 0
           THEN [h1 EXCEPT !.presses = @ + 1, !.since_read = TRUE, !.midcall_press = (rd.pc = "reset_pressed" /\ rd.index = e.index)]
           ELSE [h1 EXCEPT !.rel_since_read = TRUE]

-----------------------------------------------------------------------------
(* gamepad.py: UpdateThread.run and update_state, one action per write of  *)
(* shared state (the consumer may run between any two of them)             *)

\* `current`: the fields are those of self.update_thread; `stale`: a thread
\* started earlier that self.update_thread no longer refers to
NewThread == [started |-> FALSE, running |-> FALSE, pc |-> "none", ev |-> NoEvent, exc |-> "", current |-> TRUE, stale |-> <<>>]

\* the loop of run going on whatever `running` is
ThreadAfterEvent_ignores_stop(t) == [t EXCEPT !.pc = "read", !.ev = NoEvent]

\* update_state returned: back to `while self.running`
ThreadAfterEvent(t) == IF t.running THEN [t EXCEPT !.pc = "read", !.ev = NoEvent] ELSE [t EXCEPT !.pc = "ended", !.ev = NoEvent]

\* the except clause of run
ThreadRaise(t, exc) == [t EXCEPT !.pc = "raised", !.running = FALSE, !.ev = NoEvent, !.exc = exc]

CanRead == thread.pc = "read" /\ gp.connected

\* the pressed flag raised by a release record as well
SetEdgeFlag_pressed_on_release(g, e) == [g EXCEPT !.was_pressed_map = Put(@, e.index, TRUE), !.was_released_map = IF e.value = 0 THEN Put(@, e.index, TRUE) ELSE @]

\* lines 208-215: was_released_map[index] = True or was_pressed_map[index] = True
SetEdgeFlag(g, e) == IF e.value = 0 THEN [g EXCEPT !.was_released_map = Put(@, e.index, TRUE)] ELSE [g EXCEPT !.was_pressed_map = Put(@, e.index, TRUE)]

\* EVENT_CODE_BUTTON: the edge flag, then the callbacks of the index
UpdateStateButton(e) ==
  /\ CanRead
  /\ e \in DeviceRecords(dev)
  /\ e.type = "BUTTON"
  /\ (hist.track = "reads" /\ e.index = hist.obs /\ e.value # 0) => hist.presses < MaxCount
  /\ dev' = Deliver(dev, e)
  /\ gp' = SetEdgeFlag(gp, e)
  /\ thread' = IF e.index \in gp.button_event_maps THEN [thread EXCEPT !.pc = "level", !.ev = e] ELSE ThreadRaise(thread, "KeyError")
  /\ hist' = HistButtonEvent(hist, e, gp, gp')
  /\ UNCHANGED <<mapped_commands, main, rd>>

\* self.pressed_map[index] = final_value
UpdateStateButtonLevel ==
  /\ thread.pc = "level"
  /\ gp' = [gp EXCEPT !.pressed_map = Put(@, thread.ev.index, thread.ev.value # 0)]
  /\ thread' = ThreadAfterEvent(thread)
  /\ hist' = HistWrite(hist, gp, gp')
  /\ UNCHANGED <<mapped_commands, dev, main, rd>>

\* EVENT_CODE_AXIS
UpdateStateAxis(e) ==
  /\ CanRead
  /\ e \in DeviceRecords(dev)
  /\ e.type = "AXIS"
  /\ dev' = Deliver(dev, e)
  /\ gp' = [gp EXCEPT !.axis_map = Put(@, e.index, e.value)]
  /\ thread' = IF e.index \in gp.moved_event_map THEN ThreadAfterEvent(thread) ELSE ThreadRaise(thread, "KeyError")
  /\ hist' = HistWrite(hist, gp, gp')
  /\ UNCHANGED <<mapped_commands, main, rd>>

\* EVENT_CODE_INIT_BUTTON: pressed_map, then was_pressed_map, then was_released_map and the callback lists
UpdateStateInitButton(e) ==
  /\ CanRead
  /\ e \in DeviceRecords(dev)
  /\ e.type = "INIT_BUTTON"
  /\ dev' = Deliver(dev, e)
  /\ gp' = [gp EXCEPT !.pressed_map = Put(@, e.index, e.value # 0)]
  /\ thread' = [thread EXCEPT !.pc = "init_was_pressed", !.ev = e]
  /\ hist' = HistWrite(hist, gp, gp')
  /\ UNCHANGED <<mapped_commands, main, rd>>

\* the pressed flag initialised to the level instead of False
UpdateStateInitWasPressed_level ==
  /\ thread.pc = "init_was_pressed"
  /\ gp' = [gp EXCEPT !.was_pressed_map = Put(@, thread.ev.index, thread.ev.value # 0)]
  /\ thread' = [thread EXCEPT !.pc = "init_was_released"]
  /\ hist' = HistWrite(hist, gp, gp')
  /\ UNCHANGED <<mapped_commands, dev, main, rd>>

\* self.was_pressed_map[index] = False
UpdateStateInitWasPressed ==
  /\ thread.pc = "init_was_pressed"
  /\ gp' = [gp EXCEPT !.was_pressed_map = Put(@, thread.ev.index, FALSE)]
  /\ thread' = [thread EXCEPT !.pc = "init_was_released"]
  /\ hist' = HistWrite(hist, gp, gp')
  /\ UNCHANGED <<mapped_commands, dev, main, rd>>

UpdateStateInitWasReleased ==
  /\ thread.pc = "init_was_released"
  /\ gp' = [gp EXCEPT !.was_released_map = Put(@, thread.ev.index, FALSE), !.button_event_maps = @ \cup {thread.ev.index}]
  /\ thread' = ThreadAfterEvent(thread)
  /\ hist' = HistWrite(hist, gp, gp')
  /\ UNCHANGED <<mapped_commands, dev, main, rd>>

\* EVENT_CODE_INIT_AXIS
UpdateStateInitAxis(e) ==
  /\ CanRead
  /\ e \in DeviceRecords(dev)
  /\ e.type = "INIT_AXIS"
  /\ dev' = Deliver(dev, e)
  /\ gp' = [gp EXCEPT !.axis_map = Put(@, e.index, e.value), !.moved_event_map = @ \cup {e.index}]
  /\ thread' = ThreadAfterEvent(thread)
  /\ hist' = HistWrite(hist, gp, gp')
  /\ UNCHANGED <<mapped_commands, main, rd>>

\* a record of no known type: no branch of update_state is taken
UpdateStateOther_raises(e) ==
  /\ CanRead
  /\ e \in DeviceRecords(dev)
  /\ e.type = "OTHER"
  /\ dev' = Deliver(dev, e)
  /\ thread' = ThreadRaise(thread, "ValueError")
  /\ hist' = IF hist.track = "dev" THEN AfterStop([hist EXCEPT !.dropped = UpTo2(@)]) ELSE hist
  /\ UNCHANGED <<mapped_commands, gp, main, rd>>

\* a record of no known type: no branch of update_state is taken
UpdateStateOther(e) ==
  /\ CanRead
  /\ e \in DeviceRecords(dev)
  /\ e.type = "OTHER"
  /\ dev' = Deliver(dev, e)
  /\ thread' = ThreadAfterEvent(thread)
  /\ hist' = IF hist.track = "dev" THEN AfterStop([hist EXCEPT !.dropped = UpTo2(@)]) ELSE hist
  /\ UNCHANGED <<mapped_commands, gp, main, rd>>

\* _get_next_event_raw: the read raises IOError or returns None
ReadFails ==
  /\ CanRead
  /\ dev.state = "open"
  /\ dev' = [dev EXCEPT !.state = "gone"]
  /\ gp' = [gp EXCEPT !.connected = FALSE]
  /\ thread' = ThreadRaise(thread, "IOError")
  /\ UNCHANGED <<mapped_commands, main, rd, hist>>

\* _get_next_event_raw: the read returns fewer bytes than a record (end of
\* the stream): struct.unpack raises struct.error, connected is not touched
ReadShort ==
  /\ CanRead
  /\ dev.state = "open"
  /\ dev' = [dev EXCEPT !.state = "gone"]
  /\ thread' = ThreadRaise(thread, "struct.error")
  /\ UNCHANGED <<mapped_commands, gp, main, rd, hist>>

Pump ==
  \/ \E e \in DeviceRecords(dev) : UpdateStateButton(e)
  \/ UpdateStateButtonLevel
  \/ \E e \in DeviceRecords(dev) : UpdateStateAxis(e)
  \/ \E e \in DeviceRecords(dev) : UpdateStateInitButton(e)
  \/ UpdateStateInitWasPressed
  \/ UpdateStateInitWasReleased
  \/ \E e \in DeviceRecords(dev) : UpdateStateInitAxis(e)
  \/ \E e \in DeviceRecords(dev) : UpdateStateOther(e)
  \/ ReadFails
  \/ ReadShort

-----------------------------------------------------------------------------
(* gamepad.py: the query API.  A lookup yields [ok, value]; ok is FALSE    *)
(* where the method raises ValueError (unknown name, or no state yet for   *)
(* the index: the KeyError the method converts).                           *)

Failed == [ok |-> FALSE, value |-> 0]

_get_button_index(button_name) == IF button_name \in DOMAIN button_index THEN [ok |-> TRUE, value |-> button_index[button_name]] ELSE Failed

\* the map entry of a named button, for is_pressed / been_pressed / been_released
ButtonLookup(map, button_name) ==
  LET idx == _get_button_index(button_name)
  IN  IF idx.ok /\ idx.value \in DOMAIN map THEN [ok |-> TRUE, value |-> map[idx.value]] ELSE Failed

\* the level read from the edge flag
is_pressed_edge(g, button_name) == ButtonLookup(g.was_pressed_map, button_name)

is_pressed(g, button_name) == ButtonLookup(g.pressed_map, button_name)

axis(g, axis_name) ==
  IF axis_name \in DOMAIN axis_index /\ axis_index[axis_name] \in DOMAIN g.axis_map
  THEN [ok |-> TRUE, value |-> g.axis_map[axis_index[axis_name]]]
  ELSE Failed

-----------------------------------------------------------------------------
(* pendant.py: get_commands, one action per read or write of the tracker   *)

\* str(distance * direction): an int product prints as an integer, a float
\* product with one decimal, except 0.1 * 3 (the model's sums stay within 3)
PyStr(distance, direction) ==
  LET t == distance.tenths * direction
      sign == IF t < 0 THEN "-" ELSE ""
  IN  IF ~distance.float THEN ToString(t \div 10)
      ELSE IF distance.tenths = 1 /\ Abs(direction) = 3 THEN sign \o "0.30000000000000004"
      ELSE sign \o ToString(Abs(t) \div 10) \o "." \o ToString(Abs(t) % 10)

RECURSIVE Join(_)
\* ' '.join(words)
Join(words) == IF Len(words) = 0 THEN "" ELSE IF Len(words) = 1 THEN words[1] ELSE words[1] \o " " \o Join(Tail(words))

\* moves: the defaultdict(Move), as its items in insertion order
MoveAt(moves, movement_axis) == CHOOSE k \in 1..Len(moves) : moves[k].axis = movement_axis

\* the magnitude source of an axis kept from its first contribution
AddMove_first_source(moves, movement_axis, delta, magnitude_axis) ==
  IF \E k \in 1..Len(moves) : moves[k].axis = movement_axis
  THEN [moves EXCEPT ![MoveAt(moves, movement_axis)] = [axis |-> movement_axis, direction |-> @.direction + delta, magnitude_axis |-> @.magnitude_axis]]
  ELSE Append(moves, [axis |-> movement_axis, direction |-> delta, magnitude_axis |-> magnitude_axis])

\* moves[movement_axis].direction += delta; moves[movement_axis].magnitude_axis = magnitude_axis
AddMove(moves, movement_axis, delta, magnitude_axis) ==
  IF \E k \in 1..Len(moves) : moves[k].axis = movement_axis
  THEN [moves EXCEPT ![MoveAt(moves, movement_axis)] = [axis |-> movement_axis, direction |-> @.direction + delta, magnitude_axis |-> magnitude_axis]]
  ELSE Append(moves, [axis |-> movement_axis, direction |-> delta, magnitude_axis |-> magnitude_axis])

NewMain == [pc |-> "start", i |-> 0, index |-> 0, j |-> 0, moves |-> <<>>, gcode_moves |-> <<>>, commands |-> <<>>, fired |-> 0, exc |-> "", connected_at_call |-> TRUE, pending_at_call |-> FALSE, pressed_entries |-> {}, held_entries |-> {}, contribs |-> {}]

\* the relative move without the switch back to absolute mode
ReturnMoves_no_G90(m) ==
  [m EXCEPT !.pc = "returned", !.fired = 0,
            !.commands = IF m.gcode_moves # <<>> THEN << <<"gcode", Join(<<"G91">> \o m.gcode_moves)>> >> ELSE <<>>]

\* the mode switches sent on every tick, moves or not
ReturnMoves_always(m) ==
  [m EXCEPT !.pc = "returned", !.fired = 0,
            !.commands = << <<"gcode", Join(<<"G91">> \o m.gcode_moves)>>, <<"gcode", "G90">> >>]

\* lines 54-60: the G91 command and G90, or ()
ReturnMoves(m) ==
  [m EXCEPT !.pc = "returned", !.fired = 0,
            !.commands = IF m.gcode_moves # <<>> THEN << <<"gcode", Join(<<"G91">> \o m.gcode_moves)>>, <<"gcode", "G90">> >> ELSE <<>>]

\* the exception swallowed: the tick returns what it has accumulated
Raise_swallowed(m, exc) == ReturnMoves(m)

\* an exception leaves get_commands (and pendant.main: nothing catches it)
Raise(m, exc) == [m EXCEPT !.pc = "crashed", !.exc = exc]

RECURSIVE ToMoves_every_item(_, _)
\* the loop over moves.items() without `if move.direction:`
ToMoves_every_item(m, j) ==
  IF j > Len(m.moves) THEN ReturnMoves(m)
  ELSE [m EXCEPT !.pc = "moves", !.j = j]

RECURSIVE ToMoves(_, _)
\* the loop over moves.items(), up to the next item that reads the tracker
ToMoves(m, j) ==
  IF j > Len(m.moves) THEN ReturnMoves(m)
  ELSE IF m.moves[j].direction = 0 THEN ToMoves(m, j + 1)
  ELSE [m EXCEPT !.pc = "moves", !.j = j]

RECURSIVE ToEntry(_, _)
\* the loop over config.mapped_commands, up to the next entry that reads the tracker
ToEntry(m, i) ==
  IF i > Len(mapped_commands) THEN ToMoves(m, 1)
  ELSE IF mapped_commands[i].button # "" THEN [m EXCEPT !.pc = "button", !.i = i]
  ELSE IF mapped_commands[i].axis # <<>> THEN [m EXCEPT !.pc = "axis", !.i = i]
  ELSE ToEntry(m, i + 1)

\* `if action.axis:` of entry i, after its button part
ToAxisPart(m, i) == IF mapped_commands[i].axis # <<>> THEN [m EXCEPT !.pc = "axis", !.i = i] ELSE ToEntry(m, i + 1)

\* a fixed command that yields to motion: the tick goes on when a move is pending
ReturnFixed_unless_moving(m, i) == IF m.moves = <<>> THEN [m EXCEPT !.pc = "returned", !.commands = mapped_commands[i].commands, !.fired = i] ELSE ToAxisPart(m, i)

\* return action.commands
ReturnFixed(m, i) == [m EXCEPT !.pc = "returned", !.commands = mapped_commands[i].commands, !.fired = i]

\* lines 33-38, with `pressed` as read
AfterPressed(m, pressed) ==
  LET action == mapped_commands[m.i]
  IN  IF ~pressed THEN ToAxisPart(m, m.i)
      ELSE IF action.commands # <<>> THEN ReturnFixed([m EXCEPT !.pressed_entries = @ \cup {m.i}], m.i)
      ELSE IF action.movement_axis # "" /\ action.direction # <<>>
           THEN ToAxisPart([m EXCEPT !.moves = AddMove(@, action.movement_axis, action.direction[1], action.magnitude_axis[1]), !.pressed_entries = @ \cup {m.i}, !.contribs = @ \cup {[entry |-> m.i, delta |-> action.direction[1]]}], m.i)
      ELSE ToAxisPart([m EXCEPT !.pressed_entries = @ \cup {m.i}], m.i)

\* an edge-triggered entry of the mapping has its was_pressed flag set
EdgePending(g) ==
  \E k \in 1..Len(mapped_commands) :
    /\ mapped_commands[k].button # ""
    /\ ~mapped_commands[k].repeat_if_pressed
    /\ ButtonLookup(g.was_pressed_map, mapped_commands[k].button).ok
    /\ ButtonLookup(g.was_pressed_map, mapped_commands[k].button).value

\* the edge-triggered entries after the one that fired whose flag is set when the tick returns
LeftPending(m2) ==
  IF m2.fired = 0 THEN {}
  ELSE {k \in (m2.fired + 1)..Len(mapped_commands) :
          /\ mapped_commands[k].button # "" /\ ~mapped_commands[k].repeat_if_pressed
          /\ ButtonLookup(gp.was_pressed_map, mapped_commands[k].button).ok
          /\ ButtonLookup(gp.was_pressed_map, mapped_commands[k].button).value}

\* history at the end of a step of the tick
HistTick(h, m2) ==
  IF m2.pc # "returned" THEN h
  ELSE IF h.track = "short" THEN [h EXCEPT !.carried = h.left_pending, !.left_pending = LeftPending(m2)]
  ELSE IF h.track = "quiet" THEN [h EXCEPT !.ticked = TRUE, !.changed = FALSE, !.quiet = h.ticked /\ ~h.changed /\ ~m2.pending_at_call]
  ELSE IF h.track = "fires" /\ m2.fired # 0 /\ mapped_commands[m2.fired].button = "PS" THEN [h EXCEPT !.fires = UpTo2(@)]
  ELSE h

\* commands = get_commands(config): the call
GetCommands ==
  /\ main.pc = "loop"
  /\ main' = ToEntry([NewMain EXCEPT !.connected_at_call = gp.connected, !.pending_at_call = EdgePending(gp)], 1)
  /\ hist' = HistTick(hist, main')
  /\ UNCHANGED <<mapped_commands, gp, thread, dev, rd>>

\* config.gamepad.is_pressed(action.button)
EvalIsPressed ==
  /\ main.pc = "button"
  /\ mapped_commands[main.i].repeat_if_pressed
  /\ LET r == is_pressed(gp, mapped_commands[main.i].button)
         level == ButtonLookup(gp.pressed_map, mapped_commands[main.i].button)
         m == IF level.ok /\ level.value THEN [main EXCEPT !.held_entries = @ \cup {main.i}] ELSE main
     IN  main' = IF r.ok THEN AfterPressed(m, r.value) ELSE Raise(m, "ValueError")
  /\ hist' = HistTick(hist, main')
  /\ UNCHANGED <<mapped_commands, gp, thread, dev, rd>>

\* config.gamepad.been_pressed(action.button): `if self.was_pressed_map[button_index]:`
EvalBeenPressed ==
  /\ main.pc = "button"
  /\ ~mapped_commands[main.i].repeat_if_pressed
  /\ LET r == ButtonLookup(gp.was_pressed_map, mapped_commands[main.i].button)
     IN  /\ main' = IF ~r.ok THEN Raise(main, "ValueError")
                    ELSE IF r.value THEN [main EXCEPT !.pc = "reset", !.index = button_index[mapped_commands[main.i].button]]
                    ELSE AfterPressed(main, FALSE)
         /\ hist' = HistTick(hist, main')
  /\ UNCHANGED <<mapped_commands, gp, thread, dev, rd>>

\* been_pressed clearing the pressed flag of every button
EvalBeenPressedReset_clears_all ==
  /\ main.pc = "reset"
  /\ gp' = [gp EXCEPT !.was_pressed_map = [b \in DOMAIN @ |-> FALSE]]
  /\ main' = AfterPressed(main, TRUE)
  /\ hist' = HistTick(hist, main')
  /\ UNCHANGED <<mapped_commands, thread, dev, rd>>

\* been_pressed clearing the released flag of the button as well
EvalBeenPressedReset_clears_both ==
  /\ main.pc = "reset"
  /\ gp' = [gp EXCEPT !.was_pressed_map[main.index] = FALSE, !.was_released_map[main.index] = FALSE]
  /\ main' = AfterPressed(main, TRUE)
  /\ hist' = HistTick(hist, main')
  /\ UNCHANGED <<mapped_commands, thread, dev, rd>>

\* been_pressed: `self.was_pressed_map[button_index] = False; return True`
EvalBeenPressedReset ==
  /\ main.pc = "reset"
  /\ gp' = [gp EXCEPT !.was_pressed_map[main.index] = FALSE]
  /\ main' = AfterPressed(main, TRUE)
  /\ hist' = HistTick(hist, main')
  /\ UNCHANGED <<mapped_commands, thread, dev, rd>>

\* lines 40-45: the axis part of an entry
EvalAxis ==
  /\ main.pc = "axis"
  /\ LET action == mapped_commands[main.i]
         r == axis(gp, action.axis[1].label)
     IN  main' = IF ~r.ok THEN Raise(main, "ValueError")
                 ELSE IF ~has_triggered(action.axis[1], r.value) THEN ToEntry(main, main.i + 1)
                 ELSE IF r.value = 0 THEN Raise(main, "ZeroDivisionError")
                 ELSE LET delta == (IF r.value < 0 THEN -1 ELSE 1) * axis_direction_multiplier(action)
                      IN  ToEntry([main EXCEPT !.moves = AddMove(@, action.movement_axis, delta, action.axis[1]), !.contribs = @ \cup {[entry |-> main.i, delta |-> delta]}], main.i + 1)
  /\ hist' = HistTick(hist, main')
  /\ UNCHANGED <<mapped_commands, gp, thread, dev, rd>>

\* lines 49-53: one item of moves with a non-zero direction
ProcessMove ==
  /\ main.pc = "moves"
  /\ LET move == main.moves[main.j]
         r == axis(gp, move.magnitude_axis.label)
     IN  main' = IF ~r.ok THEN Raise(main, "ValueError")
                 ELSE ToMoves([main EXCEPT !.gcode_moves = Append(@, move.axis \o PyStr(travel_distance(move.magnitude_axis, r.value), move.direction))], main.j + 1)
  /\ hist' = HistTick(hist, main')
  /\ UNCHANGED <<mapped_commands, gp, thread, dev, rd>>

\* pendant.main lines 99-102: emit every command of the tick, then sleep
Emit ==
  /\ main.pc = "returned"
  /\ main' = [NewMain EXCEPT !.pc = "loop"]
  /\ UNCHANGED <<mapped_commands, gp, thread, dev, rd, hist>>

\* start_background_updates: the thread is created and started
StartBackgroundUpdates ==
  /\ main.pc = "start"
  /\ thread' = [thread EXCEPT !.started = TRUE, !.running = TRUE, !.pc = "read"]
  /\ main' = [main EXCEPT !.pc = "wait_ready"]
  /\ UNCHANGED <<mapped_commands, gp, dev, rd, hist>>

\* `while not self.is_ready() and self.connected: time.sleep(1.0)` is left
WaitReady ==
  /\ main.pc = "wait_ready"
  /\ is_ready(gp) \/ ~gp.connected
  /\ main' = [main EXCEPT !.pc = "loop"]
  /\ UNCHANGED <<mapped_commands, gp, thread, dev, rd, hist>>

Main ==
  \/ StartBackgroundUpdates
  \/ WaitReady
  \/ GetCommands
  \/ EvalIsPressed
  \/ EvalBeenPressed
  \/ EvalBeenPressedReset
  \/ EvalAxis
  \/ ProcessMove
  \/ Emit

-----------------------------------------------------------------------------
(* The program: pendant.main with the PS3 tracker behind it *)

\* a homing button, the LEFT-X stick and the X d-pad pair, as in the PS3 /
\* Shapeoko table and in other orders and with the stick on another axis
Mappings ==
  { <<homing("PS"), AxisCommand(xy_joystick_axis("LEFT-X"), "X", FALSE)>> \o directional_buttons("X", "DPAD-RIGHT", "DPAD-LEFT", XY_L2_MAGNITUDE_AXIS),
    directional_buttons("X", "DPAD-RIGHT", "DPAD-LEFT", XY_L2_MAGNITUDE_AXIS) \o <<AxisCommand(xy_joystick_axis("LEFT-X"), "Y", TRUE), homing("PS")>> }

\* the buttons that may be held when the device is opened
AttachStates == {[b \in ButtonIdx |-> b \in held] : held \in {{}, {10}, {16}}}

NewDevice(phys, repeats, grid) == [state |-> "open", inits |-> 0, phys |-> phys, repeats |-> repeats, grid |-> grid, ordered |-> TRUE]

\* `arg`, `skip`, `event`: the skip_init argument of a get_next_event call, the
\* skip_init of its innermost invocation, the event it returned;
\* `skipped_init`: an init record was skipped during the call
NoReader == [pc |-> "idle", index |-> 0, call |-> "", result |-> "", due |-> FALSE, arg |-> FALSE, skip |-> FALSE, event |-> NoEvent, skipped_init |-> FALSE]

Init ==
  /\ mapped_commands \in Mappings
  /\ gp = NewGamepad
  /\ thread = NewThread
  /\ dev \in {NewDevice(phys, FALSE, SticksInUse) : phys \in AttachStates}
  /\ main = NewMain
  /\ rd = NoReader
  /\ hist = NewHist("none", 0)

Next == Pump \/ Main

Spec == Init /\ [][Next]_vars

\* the same program, with the history of what changed between ticks
InitQuiet ==
  /\ mapped_commands \in Mappings
  /\ gp = NewGamepad
  /\ thread = NewThread
  /\ dev \in {NewDevice(phys, FALSE, SticksInUse) : phys \in AttachStates}
  /\ main = NewMain
  /\ rd = NoReader
  /\ hist = NewHist("quiet", 0)

SpecQuiet == InitQuiet /\ [][Next]_vars

\* the same program, with the history of the homing button's presses and firings
InitFires ==
  /\ mapped_commands \in Mappings
  /\ gp = NewGamepad
  /\ thread = NewThread
  /\ dev \in {NewDevice(phys, TRUE, SticksInUse) : phys \in AttachStates}
  /\ main = NewMain
  /\ rd = NoReader
  /\ hist = NewHist("fires", 0)

SpecFires == InitFires /\ [][Next]_vars

-----------------------------------------------------------------------------
(* A client of the tracker that polls the edge flags of one button while   *)
(* the background thread applies the device's records.  A call is one step *)
(* when it returns False or raises, two when it returns True: the test of  *)
(* the flag and its reset.                                                 *)

\* history of a completed read of the observed button's pressed flag
HistRead(h, result) ==
  IF result THEN [h EXCEPT !.true_reads = Bump(@), !.since_read = FALSE, !.lost = @ \/ h.midcall_press, !.midcall_press = FALSE]
  ELSE [h EXCEPT !.since_read = FALSE]

\* been_pressed(button_name): `if self.was_pressed_map[button_index]:`
BeenPressedTest(button_name) ==
  /\ main.pc = "loop"
  /\ rd.pc = "idle"
  /\ LET r == ButtonLookup(gp.was_pressed_map, button_name)
     IN  /\ rd' = IF ~r.ok THEN [pc |-> "idle", index |-> 0, call |-> "been_pressed", result |-> "ValueError", due |-> FALSE]
                  ELSE IF r.value THEN [pc |-> "reset_pressed", index |-> button_index[button_name], call |-> "been_pressed", result |-> "", due |-> FALSE]
                  ELSE [pc |-> "idle", index |-> button_index[button_name], call |-> "been_pressed", result |-> "False", due |-> hist.since_read]
         /\ hist' = IF r.ok /\ ~r.value THEN HistRead(hist, FALSE) ELSE hist
  /\ UNCHANGED <<mapped_commands, gp, thread, dev, main>>

\* been_pressed that returns True and leaves the flag set
BeenPressedReset_keeps_flag ==
  /\ rd.pc = "reset_pressed"
  /\ rd' = [rd EXCEPT !.pc = "idle", !.result = "True", !.due = hist.since_read]
  /\ hist' = HistRead(hist, TRUE)
  /\ UNCHANGED <<mapped_commands, gp, thread, dev, main>>

\* been_pressed: `self.was_pressed_map[button_index] = False; return True`
BeenPressedReset ==
  /\ rd.pc = "reset_pressed"
  /\ gp' = [gp EXCEPT !.was_pressed_map[rd.index] = FALSE]
  /\ rd' = [rd EXCEPT !.pc = "idle", !.result = "True", !.due = hist.since_read]
  /\ hist' = HistRead(hist, TRUE)
  /\ UNCHANGED <<mapped_commands, thread, dev, main>>

\* been_released(button_name): `if self.was_released_map[button_index]:`
BeenReleasedTest(button_name) ==
  /\ main.pc = "loop"
  /\ rd.pc = "idle"
  /\ LET r == ButtonLookup(gp.was_released_map, button_name)
     IN  /\ rd' = IF ~r.ok THEN [pc |-> "idle", index |-> 0, call |-> "been_released", result |-> "ValueError", due |-> FALSE]
                  ELSE IF r.value THEN [pc |-> "reset_released", index |-> button_index[button_name], call |-> "been_released", result |-> "", due |-> FALSE]
                  ELSE [pc |-> "idle", index |-> button_index[button_name], call |-> "been_released", result |-> "False", due |-> hist.rel_since_read]
         /\ hist' = IF r.ok /\ ~r.value THEN [hist EXCEPT !.rel_since_read = FALSE] ELSE hist
  /\ UNCHANGED <<mapped_commands, gp, thread, dev, main>>

\* been_released: `self.was_released_map[button_index] = False; return True`
BeenReleasedReset ==
  /\ rd.pc = "reset_released"
  /\ gp' = [gp EXCEPT !.was_released_map[rd.index] = FALSE]
  /\ rd' = [rd EXCEPT !.pc = "idle", !.result = "True", !.due = hist.rel_since_read]
  /\ hist' = [hist EXCEPT !.rel_since_read = FALSE]
  /\ UNCHANGED <<mapped_commands, thread, dev, main>>

Reader ==
  \/ BeenPressedTest(button_names[hist.obs])
  \/ BeenPressedReset
  \/ BeenReleasedTest(button_names[hist.obs])
  \/ BeenReleasedReset

\* the tracker started as pendant.main starts it, polled by the client, the
\* sticks left alone; the observed button is one the operator works
InitPad ==
  /\ mapped_commands = <<homing("PS")>>
  /\ gp = NewGamepad
  /\ thread = NewThread
  /\ dev \in {NewDevice(phys, FALSE, SticksAtRest) : phys \in AttachStates}
  /\ main = NewMain
  /\ rd = NoReader
  /\ hist \in {NewHist("reads", obs) : obs \in LiveButtons}

NextPad == Pump \/ StartBackgroundUpdates \/ WaitReady \/ Reader

SpecPad == InitPad /\ [][NextPad]_vars

-----------------------------------------------------------------------------
(* get_commands against a reference: one axis-driven entry, the tracker    *)
(* holding one value of the stick, the background thread not running.      *)

\* raw values of LEFT-X: rest, both ends, and both sides of every threshold
\* (0.05, 0.1, 0.4, 0.5, 0.8, 0.9 of MAX_AXIS, to the nearest raw step)
RefGrid == {0, 1638, 3276, 3277, 13106, 13107, 16384, 26213, 26214, 29491, 32767, -1638, -3276, -3277, -13106, -13107, -16384, -26213, -26214, -29491, -32767}

\* the tracker after every control of the PS3 table reported its state
ReadyGamepad(v) ==
  [NewGamepad EXCEPT !.pressed_map = [b \in ButtonIdx |-> FALSE], !.was_pressed_map = [b \in ButtonIdx |-> FALSE], !.was_released_map = [b \in ButtonIdx |-> FALSE],
                     !.axis_map = (0 :> v) @@ (2 :> -32767), !.button_event_maps = ButtonIdx, !.moved_event_map = AxisIdx]

InitRef ==
  /\ mapped_commands \in {<<AxisCommand(xy_joystick_axis("LEFT-X"), "X", reverse)>> : reverse \in BOOLEAN}
  /\ gp \in {ReadyGamepad(v) : v \in RefGrid}
  /\ thread = NewThread
  /\ dev = [NewDevice([b \in ButtonIdx |-> FALSE], FALSE, SticksAtRest) EXCEPT !.inits = Len(InitOrder)]
  /\ main = [NewMain EXCEPT !.pc = "loop"]
  /\ rd = NoReader
  /\ hist = NewHist("none", 0)

NextRef == GetCommands \/ EvalAxis \/ ProcessMove \/ Emit

SpecRef == InitRef /\ [][NextRef]_vars

\* MagnitudeAxis(label=label): every other field at its default
DefaultMagnitudeAxis(label) == MagnitudeAxis(label, PyFloat(1), PyInt(1), PyInt(10), 0, 8, NEG_INF, FALSE)

\* get_commands with one axis-driven entry whose axis keeps the default trigger
InitTrig ==
  /\ mapped_commands \in {<<AxisCommand(DefaultMagnitudeAxis("LEFT-X"), "X", reverse)>> : reverse \in BOOLEAN}
  /\ gp \in {ReadyGamepad(v) : v \in RefGrid}
  /\ thread = NewThread
  /\ dev = [NewDevice([b \in ButtonIdx |-> FALSE], FALSE, SticksAtRest) EXCEPT !.inits = Len(InitOrder)]
  /\ main = [NewMain EXCEPT !.pc = "loop"]
  /\ rd = NoReader
  /\ hist = NewHist("none", 0)

SpecTrig == InitTrig /\ [][NextRef]_vars

-----------------------------------------------------------------------------
(* get_commands on a tracker at rest in each combination of the d-pad pair *)
(* held or not, the stick and the L2 trigger, the background thread not    *)
(* running and no edge pending.                                            *)

ReadyPad(held, x, l2) ==
  [NewGamepad EXCEPT !.pressed_map = [b \in ButtonIdx |-> b \in held], !.was_pressed_map = [b \in ButtonIdx |-> FALSE], !.was_released_map = [b \in ButtonIdx |-> FALSE],
                     !.axis_map = (0 :> x) @@ (2 :> l2), !.button_event_maps = ButtonIdx, !.moved_event_map = AxisIdx]

InitAgg ==
  /\ mapped_commands \in Mappings
  /\ gp \in {ReadyPad(held, x, l2) : held \in SUBSET {15, 16}, x \in {-32767, 0, 16384}, l2 \in {-32767, 0, 32767}}
  /\ thread = NewThread
  /\ dev = [NewDevice([b \in ButtonIdx |-> FALSE], FALSE, SticksAtRest) EXCEPT !.inits = Len(InitOrder)]
  /\ main = [NewMain EXCEPT !.pc = "loop"]
  /\ rd = NoReader
  /\ hist = NewHist("none", 0)

NextAgg == GetCommands \/ EvalIsPressed \/ EvalBeenPressed \/ EvalAxis \/ ProcessMove \/ Emit

SpecAgg == InitAgg /\ [][NextAgg]_vars

-----------------------------------------------------------------------------
(* pendant.main with two fixed-command buttons in the mapping, in both     *)
(* orders, on a device that may or may not report its controls first       *)

FixedMappings == { <<homing("PS"), set_zero("DPAD-RIGHT")>>, <<zero("DPAD-RIGHT"), homing("PS")>> }

InitShort ==
  /\ mapped_commands \in FixedMappings
  /\ gp = NewGamepad
  /\ thread = NewThread
  /\ dev \in {[NewDevice(phys, FALSE, SticksAtRest) EXCEPT !.ordered = ordered] : phys \in AttachStates, ordered \in BOOLEAN}
  /\ main = NewMain
  /\ rd = NoReader
  /\ hist = NewHist("short", 0)

NextShort == Pump \/ StartBackgroundUpdates \/ WaitReady \/ GetCommands \/ EvalBeenPressed \/ EvalBeenPressedReset \/ Emit

SpecShort == InitShort /\ [][NextShort]_vars

-----------------------------------------------------------------------------
(* The tracker alone: the background thread applying the records of a      *)
(* device that may report a change of a control before the control itself, *)
(* repeats levels and reports the whole signed 16-bit range; the client    *)
(* starts the updates and may stop them at any time, started or not.       *)

\* stop_background_updates raising when no thread is running
StopBackgroundUpdates_raises ==
  /\ hist.stops < MaxCount
  /\ thread' = IF thread.started /\ thread.running THEN [thread EXCEPT !.running = FALSE] ELSE thread
  /\ rd' = IF thread.started /\ thread.running THEN rd ELSE [rd EXCEPT !.call = "stop_background_updates", !.result = "RuntimeError"]
  /\ hist' = [hist EXCEPT !.stops = @ + 1]
  /\ UNCHANGED <<mapped_commands, gp, dev, main>>

\* stop_background_updates: `if self.update_thread is not None: self.update_thread.running = False`
StopBackgroundUpdates ==
  /\ hist.stops < MaxCount
  /\ thread.current
  /\ thread' = IF thread.started THEN [thread EXCEPT !.running = FALSE] ELSE thread
  /\ rd' = [rd EXCEPT !.call = "stop_background_updates", !.result = "None"]
  /\ hist' = [hist EXCEPT !.stops = @ + 1]
  /\ UNCHANGED <<mapped_commands, gp, dev, main>>

\* raw values of LEFT-X over the signed 16-bit range: both ends and rest
SticksRaw == (0 :> {-32768, 0, 32767}) @@ (2 :> {-32767})

InitDev ==
  /\ mapped_commands = <<homing("PS")>>
  /\ gp = NewGamepad
  /\ thread = NewThread
  /\ dev \in {[NewDevice(phys, TRUE, SticksRaw) EXCEPT !.ordered = ordered] : phys \in AttachStates, ordered \in BOOLEAN}
  /\ main = NewMain
  /\ rd = NoReader
  /\ hist = NewHist("dev", 0)

NextDev == Pump \/ StartBackgroundUpdates \/ WaitReady \/ StopBackgroundUpdates

SpecDev == InitDev /\ [][NextDev]_vars

-----------------------------------------------------------------------------
(* The tracker with start_background_updates called again: the thread it   *)
(* replaces is not joined, both threads run UpdateThread.run on the same   *)
(* Gamepad.  The steps of Pump are those of the thread whose fields are in *)
(* `thread`; Schedule hands the processor to the other one.                *)

Alone(t) == [started |-> t.started, running |-> t.running, pc |-> t.pc, ev |-> t.ev, exc |-> t.exc]

\* inside `while self.running:` (blocked in the read or applying a record)
InLoop(t) == t.pc \in {"read", "level", "init_was_pressed", "init_was_released"}

\* start_background_updates on a Gamepad that has an update_thread
StartAgain ==
  /\ thread.current /\ thread.started /\ thread.stale = <<>>
  /\ IF thread.running
     THEN /\ rd' = [rd EXCEPT !.call = "start_background_updates", !.result = "RuntimeError"]
          /\ UNCHANGED thread
     ELSE /\ rd' = [rd EXCEPT !.call = "start_background_updates", !.result = "None"]
          /\ thread' = [NewThread EXCEPT !.started = TRUE, !.running = TRUE, !.pc = "read", !.stale = IF InLoop(thread) THEN <<Alone(thread)>> ELSE <<>>]
  /\ UNCHANGED <<mapped_commands, gp, dev, main, hist>>

\* the other thread runs
Schedule ==
  /\ thread.stale # <<>>
  /\ thread' = [started |-> thread.stale[1].started, running |-> thread.stale[1].running, pc |-> thread.stale[1].pc, ev |-> thread.stale[1].ev, exc |-> thread.stale[1].exc,
                current |-> ~thread.current, stale |-> <<Alone(thread)>>]
  /\ UNCHANGED <<mapped_commands, gp, dev, main, rd, hist>>

InitAgain ==
  /\ mapped_commands = <<homing("PS")>>
  /\ gp = NewGamepad
  /\ thread = NewThread
  /\ dev \in {NewDevice(phys, FALSE, SticksAtRest) : phys \in AttachStates}
  /\ main = NewMain
  /\ rd = NoReader
  /\ hist = NewHist("none", 0)

NextAgain == Pump \/ StartBackgroundUpdates \/ WaitReady \/ StopBackgroundUpdates \/ StartAgain \/ Schedule

SpecAgain == InitAgain /\ [][NextAgain]_vars

-----------------------------------------------------------------------------
(* gamepad.py: get_next_event called by a client, no background thread.    *)
(* One step per invocation: the call, then one record read and applied by  *)
(* each (recursive) invocation.                                            *)

\* the state writes of get_next_event for a record whose callback lists exist
ApplyEvent(g, e) ==
  IF e.type = "BUTTON" THEN [SetEdgeFlag(g, e) EXCEPT !.pressed_map = Put(@, e.index, e.value # 0)]
  ELSE IF e.type = "AXIS" THEN [g EXCEPT !.axis_map = Put(@, e.index, e.value)]
  ELSE IF e.type = "INIT_BUTTON"
  THEN [g EXCEPT !.pressed_map = Put(@, e.index, e.value # 0), !.was_pressed_map = Put(@, e.index, FALSE), !.was_released_map = Put(@, e.index, FALSE), !.button_event_maps = @ \cup {e.index}]
  ELSE IF e.type = "INIT_AXIS" THEN [g EXCEPT !.axis_map = Put(@, e.index, e.value), !.moved_event_map = @ \cup {e.index}]
  ELSE g

\* the callback list of the index is looked up before the init record made it
NoCallbackList(g, e) == (e.type = "BUTTON" /\ e.index \notin g.button_event_maps) \/ (e.type = "AXIS" /\ e.index \notin g.moved_event_map)

\* the writes made before the KeyError
ApplyUpToKeyError(g, e) == IF e.type = "BUTTON" THEN SetEdgeFlag(g, e) ELSE [g EXCEPT !.axis_map = Put(@, e.index, e.value)]

\* `skip` at the end of an invocation whose parameter is skip_init
Skip(e, skip_init) == IF e.type \in {"INIT_BUTTON", "INIT_AXIS"} THEN skip_init ELSE e.type = "OTHER"

\* get_next_event(skip_init) is called
GetNextEventCall ==
  /\ rd.pc = "idle"
  /\ \E skip_init \in BOOLEAN : rd' = [NoReader EXCEPT !.pc = "next", !.call = "get_next_event", !.arg = skip_init, !.skip = skip_init]
  /\ UNCHANGED <<mapped_commands, gp, thread, dev, main, hist>>

\* one invocation: a record is read and applied, then returned or skipped
\* with `return self.get_next_event()` (skip_init takes its default, True)
GetNextEventRead(e) ==
  /\ rd.pc = "next"
  /\ gp.connected
  /\ e \in DeviceRecords(dev)
  /\ dev' = Deliver(dev, e)
  /\ IF NoCallbackList(gp, e)
     THEN /\ gp' = ApplyUpToKeyError(gp, e)
          /\ rd' = [rd EXCEPT !.pc = "idle", !.result = "KeyError"]
     ELSE /\ gp' = ApplyEvent(gp, e)
          /\ rd' = IF Skip(e, rd.skip)
                   THEN [rd EXCEPT !.skip = TRUE, !.skipped_init = @ \/ e.type \in {"INIT_BUTTON", "INIT_AXIS"}]
                   ELSE [rd EXCEPT !.pc = "idle", !.result = "event", !.event = e]
  /\ UNCHANGED <<mapped_commands, thread, main, hist>>

\* _get_next_event_raw raises IOError: the read failed, or connected is already False
GetNextEventFails ==
  /\ rd.pc = "next"
  /\ dev.state = "open" \/ ~gp.connected
  /\ dev' = [dev EXCEPT !.state = "gone"]
  /\ gp' = [gp EXCEPT !.connected = FALSE]
  /\ rd' = [rd EXCEPT !.pc = "idle", !.result = "IOError"]
  /\ UNCHANGED <<mapped_commands, thread, main, hist>>

\* the read returns fewer bytes than a record: struct.unpack raises
GetNextEventShort ==
  /\ rd.pc = "next"
  /\ gp.connected
  /\ dev.state = "open"
  /\ dev' = [dev EXCEPT !.state = "gone"]
  /\ rd' = [rd EXCEPT !.pc = "idle", !.result = "struct.error"]
  /\ UNCHANGED <<mapped_commands, gp, thread, main, hist>>

InitNext ==
  /\ mapped_commands = <<homing("PS")>>
  /\ gp = NewGamepad
  /\ thread = NewThread
  /\ dev \in {[NewDevice(phys, FALSE, SticksAtRest) EXCEPT !.ordered = ordered] : phys \in AttachStates, ordered \in BOOLEAN}
  /\ main = NewMain
  /\ rd = NoReader
  /\ hist = NewHist("none", 0)

NextNext == GetNextEventCall \/ (\E e \in DeviceRecords(dev) : GetNextEventRead(e)) \/ GetNextEventFails \/ GetNextEventShort

SpecNext == InitNext /\ [][NextNext]_vars

-----------------------------------------------------------------------------
(* Vocabulary of the properties *)

\* get_commands is running or has just returned
InTick == main.pc \in {"button", "reset", "axis", "moves", "returned"}

Returned == main.pc = "returned"

G90Command == <<"gcode", "G90">>

\* every step size of the mapping model and every sum of contributions
StepSizes == {PyFloat(1), PyInt(1), PyInt(10), PyFloat(5), PyFloat(25)}
Sums == {-3, -2, -1, 1, 2, 3}
MoveWords == {a \o PyStr(d, k) : a \in {"X", "Y", "Z"}, d \in StepSizes, k \in Sums}

\* the texts a synthesized relative move can have (one or two axes)
G91Texts == {"G91 " \o w : w \in MoveWords} \cup {"G91 " \o w[1] \o " " \o w[2] : w \in MoveWords \X MoveWords}

IsG91(c) == Len(c) = 2 /\ c[1] = "gcode" /\ c[2] \in G91Texts

IsMoveCommand(c) == IsG91(c) \/ c = G90Command

\* the entries with a fixed command sequence that read as pressed in this tick
FixedPressed == {k \in main.pressed_entries : mapped_commands[k].commands # <<>>}

\* the words a movement axis can get from magnitude source mag with a sum of sign sgn
WordsFor(movement_axis, mag, sgn) == {movement_axis \o PyStr(d, sgn * n) : d \in {mag.slow_move_step, mag.mid_move_step, mag.fast_move_step}, n \in 1..3}

-----------------------------------------------------------------------------
(* C1: fixed-command priority.  Whenever a tick of get_commands reads a    *)
(* button entry with a non-empty command sequence as pressed, the tick     *)
(* returns exactly that entry's commands: it is the first such entry in    *)
(* list order, nothing read as pressed lies after it, and the result holds *)
(* no G91 move and no G90, whatever directional buttons were read as held  *)
(* and whatever axes had triggered before it in the list.                  *)
C1_FixedCommandPriority ==
  (InTick /\ FixedPressed # {}) =>
    /\ Returned
    /\ main.fired \in FixedPressed
    /\ \A k \in main.pressed_entries : k <= main.fired
    /\ \A c \in main.contribs : c.entry < main.fired
    /\ main.commands = mapped_commands[main.fired].commands
    /\ \A n \in 1..Len(main.commands) : ~IsMoveCommand(main.commands[n])

\* a fixed command fired after a held directional button and a triggered axis had both added to moves
C1_Witness ==
  /\ Returned
  /\ main.fired # 0
  /\ \E k \in main.pressed_entries : k < main.fired /\ mapped_commands[k].direction # <<>>
  /\ \E c \in main.contribs : mapped_commands[c.entry].axis # <<>>
  /\ \E k \in 1..Len(main.moves) : main.moves[k].direction # 0
  /\ main.commands = << <<"homing">> >>

-----------------------------------------------------------------------------
(* C2: once the tracker is disconnected, no tick starts: get_commands is   *)
(* never running, or returning commands to be sent, in a call made while   *)
(* is_connected() was false.                                               *)
C2_NoTickWhenDisconnected == InTick => main.connected_at_call

-----------------------------------------------------------------------------
(* C9: shape of a motion tick.  When no fixed command fires the tick       *)
(* returns () if no movement axis has a non-zero accumulated direction,    *)
(* and otherwise exactly two commands: ('gcode', 'G91 ...') with one word  *)
(* per movement axis of non-zero direction, each axis once and in the      *)
(* order of moves, then ('gcode', 'G90').  In every result a G91 command   *)
(* is directly followed by G90.                                            *)
NonZeroMoves == SelectSeq(main.moves, LAMBDA mv : mv.direction # 0)

C9_MotionTickShape ==
  Returned =>
    /\ \A n \in 1..Len(main.commands) : IsG91(main.commands[n]) => (n < Len(main.commands) /\ main.commands[n + 1] = G90Command)
    /\ main.fired = 0 =>
         /\ \A k, l \in 1..Len(main.moves) : main.moves[k].axis = main.moves[l].axis => k = l
         /\ IF NonZeroMoves = <<>> THEN main.commands = <<>>
            ELSE /\ Len(main.commands) = 2
                 /\ IsG91(main.commands[1])
                 /\ main.commands[1] = <<"gcode", Join(<<"G91">> \o main.gcode_moves)>>
                 /\ main.commands[2] = G90Command
                 /\ Len(main.gcode_moves) = Len(NonZeroMoves)
                 /\ \A n \in 1..Len(NonZeroMoves) : main.gcode_moves[n] \in WordsFor(NonZeroMoves[n].axis, NonZeroMoves[n].magnitude_axis, IF NonZeroMoves[n].direction < 0 THEN -1 ELSE 1)

\* a tick with two movement axes in its G91 command, and one axis whose contributions cancelled
C9_Witness ==
  /\ Returned
  /\ main.fired = 0
  /\ Len(main.gcode_moves) = 2
  /\ main.commands = << <<"gcode", "G91 X0.1 Y-1">>, <<"gcode", "G90">> >>

-----------------------------------------------------------------------------
(* C7: a level-triggered directional button that is held when a tick       *)
(* evaluates its entry, with no opposing contribution on its movement axis *)
(* and no fixed command firing, makes the tick return a move: the G91      *)
(* command with a word for that axis in the button's direction, then G90.  *)
(* This holds in every tick, so N ticks give N moves; and no step of a     *)
(* tick changes a pressed level.                                           *)
NoOpposing(k) == \A c \in main.contribs : mapped_commands[c.entry].movement_axis = mapped_commands[k].movement_axis => c.delta = mapped_commands[k].direction[1]

HeldButtonMoves ==
  (Returned /\ main.fired = 0) =>
    \A k \in main.held_entries :
      (mapped_commands[k].direction # <<>> /\ mapped_commands[k].commands = <<>> /\ NoOpposing(k)) =>
        /\ Len(main.commands) = 2
        /\ main.commands[1] = <<"gcode", Join(<<"G91">> \o main.gcode_moves)>>
        /\ main.commands[2] = G90Command
        /\ \E n \in 1..Len(main.gcode_moves) : main.gcode_moves[n] \in {mapped_commands[k].movement_axis \o PyStr(d, mapped_commands[k].direction[1] * m) : d \in StepSizes, m \in 1..3}

TickKeepsLevels == (main' # main) => (gp'.pressed_map = gp.pressed_map)

C7_HeldButtonRepeats == [](HeldButtonMoves) /\ [][TickKeepsLevels]_vars

\* DPAD-RIGHT still held in a tick that follows another with nothing changed in between: both return the move
C7_Witness ==
  /\ Returned
  /\ hist.quiet
  /\ \E k \in main.held_entries : mapped_commands[k].button = "DPAD-RIGHT" /\ NoOpposing(k)
  /\ main.commands = << <<"gcode", "G91 X0.1">>, <<"gcode", "G90">> >>

-----------------------------------------------------------------------------
(* C8 as stated: a tick with no tracker state changed since the previous   *)
(* tick returned, and no edge flag of an edge-triggered entry pending when *)
(* it was called, returns the empty sequence.                              *)
C8_QuietTickIsEmpty == (Returned /\ hist.quiet) => main.commands = <<>>

\* no level-triggered button of the mapping is held and no axis-driven entry has triggered
NothingHeld ==
  \A k \in 1..Len(mapped_commands) :
    /\ (mapped_commands[k].button # "" /\ mapped_commands[k].repeat_if_pressed) => (is_pressed(gp, mapped_commands[k].button).ok /\ ~is_pressed(gp, mapped_commands[k].button).value)
    /\ (mapped_commands[k].axis # <<>>) => (axis(gp, mapped_commands[k].axis[1].label).ok /\ ~has_triggered(mapped_commands[k].axis[1], axis(gp, mapped_commands[k].axis[1].label).value))

(* C8 as amended: such a tick returns the empty sequence when, in          *)
(* addition, no level-triggered button is held and no axis-driven entry's  *)
(* axis is beyond its trigger threshold.                                   *)
C8_QuietIdleTickIsEmpty == (Returned /\ hist.quiet /\ ~hist.changed /\ NothingHeld) => main.commands = <<>>

\* a second tick over an unchanged, idle tracker, returning nothing
C8_Witness == Returned /\ hist.quiet /\ ~hist.changed /\ NothingHeld /\ main.commands = <<>> /\ is_ready(gp) /\ DOMAIN gp.axis_map = AxisIdx

-----------------------------------------------------------------------------
(* C6 as stated: between one physical press of the homing button and the   *)
(* next, at most one tick returns the homing commands.                     *)
C6_FiresOncePerPress == hist.fires <= 1

-----------------------------------------------------------------------------
(* C3: consume-on-read.  For an initialized button, a been_pressed (resp.  *)
(* been_released) call returns True exactly when a press (resp. release)   *)
(* event was applied since the last call returned, so the first call after *)
(* an event returns True and further calls return False until another      *)
(* event; and the flag is set exactly while such an event is unread, so a  *)
(* call that returns True has reset it.                                    *)
C3_ConsumeOnRead ==
  /\ hist.obs \in DOMAIN gp.was_pressed_map => gp.was_pressed_map[hist.obs] = hist.since_read
  /\ hist.obs \in DOMAIN gp.was_released_map => gp.was_released_map[hist.obs] = hist.rel_since_read
  /\ (rd.pc = "idle" /\ rd.result \in {"True", "False"}) => ((rd.result = "True") = rd.due)

\* one press, read as True once, and the next read of the flag returned False
C3_Witness ==
  /\ rd.pc = "idle" /\ rd.call = "been_pressed" /\ rd.result = "False" /\ ~rd.due
  /\ hist.presses = 1 /\ hist.true_reads = 1
  /\ ~gp.was_pressed_map[hist.obs]

\* the consumer has read the observed button's flag after its last press
ReadAfterLastPress == rd.pc = "idle" /\ ~hist.since_read

(* C4 as stated: once the consumer has read after the last press, the      *)
(* number of reads that returned True equals the number of press events    *)
(* applied to the button (here in the runs where no reset of a read erased *)
(* a press, so that what fails is the count alone).                        *)
C4_ExactlyOnce == (ReadAfterLastPress /\ ~hist.lost) => hist.true_reads = hist.presses

(* C4 as amended: press events applied between two reads are reported by   *)
(* one True read.  The reads that returned True never outnumber the press  *)
(* events, and once the consumer has read after the last press at least    *)
(* one read returned True if any press was applied.                        *)
C4_AtMostOnce ==
  /\ hist.true_reads <= hist.presses
  /\ (ReadAfterLastPress /\ hist.presses > 0) => hist.true_reads >= 1

\* two presses between two reads, reported by a single True read, no read overlapping a press
C4_Witness == ReadAfterLastPress /\ rd.result = "True" /\ hist.presses = 2 /\ hist.true_reads = 1 /\ ~hist.lost

(* C5 as stated: the reset of been_pressed never erases a press that the   *)
(* background thread applied after the call tested the flag (the flag is   *)
(* False after the reset, so no read reports that press).                  *)
C5_CheckAndClearAtomic == ~hist.lost

-----------------------------------------------------------------------------
(* The reference for one axis-driven entry on X: thresholds 0.1, 0.4, 0.8  *)
(* on |v|, steps 0.1, 1, 10, v = raw / 32767                                *)

RefBand(raw) == IF 10 * Abs(raw) < 4 * 32767 THEN "slow" ELSE IF 10 * Abs(raw) > 8 * 32767 THEN "fast" ELSE "mid"

RefSign(raw, reverse) == (IF raw < 0 THEN -1 ELSE 1) * (IF reverse THEN -1 ELSE 1)

RefMove(band, s) ==
  CASE band = "slow" /\ s = 1 -> "G91 X0.1"
    [] band = "slow" /\ s = -1 -> "G91 X-0.1"
    [] band = "mid" /\ s = 1 -> "G91 X1"
    [] band = "mid" /\ s = -1 -> "G91 X-1"
    [] band = "fast" /\ s = 1 -> "G91 X10"
    [] band = "fast" /\ s = -1 -> "G91 X-10"

(* C10: with one axis-driven entry (0.4, 0.8, trigger 0.1, absolute input) *)
(* get_commands returns nothing when |v| <= 0.1 and otherwise the relative *)
(* move of the reference followed by G90.                                  *)
C10_AxisMoveReference ==
  Returned =>
    LET raw == gp.axis_map[0]
        reverse == mapped_commands[1].reverse_axis_direction
    IN  main.commands = IF 10 * Abs(raw) <= 32767 THEN <<>>
                        ELSE << <<"gcode", RefMove(RefBand(raw), RefSign(raw, reverse))>>, <<"gcode", "G90">> >>

\* v = -0.5 on a reversed axis gives G91 X1
C10_Witness ==
  /\ Returned /\ gp.axis_map[0] = -16384 /\ mapped_commands[1].reverse_axis_direction
  /\ main.commands = << <<"gcode", "G91 X1">>, <<"gcode", "G90">> >>

-----------------------------------------------------------------------------
(* C11 as stated: a tick that evaluates an axis-driven entry on a value    *)
(* for which has_triggered is true, 0.0 with the default trigger included, *)
(* does not fail.                                                          *)
C11_TriggeredAxisCompletes ==
  ~(main.pc = "crashed" /\ has_triggered(mapped_commands[main.i].axis[1], gp.axis_map[0]))

(* C12 as stated: once the device stream has failed to deliver a full      *)
(* record (read error, no data, fewer bytes than a record) the decode has  *)
(* failed with the disconnection error and the connected flag is false.    *)
C12_ShortReadDisconnects == dev.state = "gone" => (thread.exc = "IOError" /\ ~gp.connected)

(* C13 as stated: whenever the pump thread has ended without               *)
(* stop_background_updates having been called, its running flag is false   *)
(* and is_connected() is false.                                            *)
C13_DisconnectionIsTerminal ==
  (thread.pc \in {"raised", "ended"} /\ hist.stops = 0) => (~thread.running /\ ~is_connected(gp))

\* the tracker has no state for the control the tick is about to read
LookupFails ==
  CASE main.pc = "button" -> ~ButtonLookup(IF mapped_commands[main.i].repeat_if_pressed THEN gp.pressed_map ELSE gp.was_pressed_map, mapped_commands[main.i].button).ok
    [] main.pc = "axis" -> ~axis(gp, mapped_commands[main.i].axis[1].label).ok
    [] main.pc = "moves" -> ~axis(gp, main.moves[main.j].magnitude_axis.label).ok
    [] OTHER -> FALSE

TickAborts == (main' # main /\ LookupFails) => (main'.pc = "crashed" /\ main'.exc = "ValueError" /\ main'.commands = <<>>)

AbortIsFinal == main.pc = "crashed" => main' = main

(* C14: when a tick reads a button, an axis or the magnitude source of a   *)
(* move for which the tracker has no state, the read fails with ValueError,*)
(* get_commands ends with that exception, and the tick returns no command: *)
(* nothing is returned or emitted after the failure.                       *)
C14_LookupFailureAborts == [](main.pc = "crashed" => main.commands = <<>>) /\ [][TickAborts /\ AbortIsFinal]_vars

\* a move was accumulated, then the lookup of its magnitude source failed
C14_Witness == main.pc = "crashed" /\ main.exc = "ValueError" /\ main.j >= 1 /\ main.moves # <<>> /\ main.commands = <<>>

\* the controls for which the device has delivered an init record
Inited(d) == {InitOrder[k] : k \in 1..d.inits}

(* C15 as stated: every index present in pressed_map or axis_map has had   *)
(* an init event applied, and is_ready() is true iff at least two          *)
(* initialized controls exist.                                             *)
C15_InitializedBeforeQueryable ==
  /\ \A b \in DOMAIN gp.pressed_map : [kind |-> "B", index |-> b] \in Inited(dev)
  /\ \A a \in DOMAIN gp.axis_map : [kind |-> "A", index |-> a] \in Inited(dev)
  /\ is_ready(gp) = (Cardinality(Inited(dev)) >= 2)

(* C16 as stated: every value stored in axis_map is raw / 32767 with       *)
(* -1.0 <= value <= 1.0 (the model keeps the numerator raw).               *)
C16_AxisRange == \A a \in DOMAIN gp.axis_map : -MAX_AXIS <= gp.axis_map[a] /\ gp.axis_map[a] <= MAX_AXIS

\* a call of stop_background_updates
StopStep == hist'.stops # hist.stops

(* C17: stop_background_updates raises nothing and leaves levels, edge     *)
(* flags, axis values and the connected flag unchanged; called when the    *)
(* thread was never started or is no longer running it changes nothing at  *)
(* all.                                                                    *)
C17_StopIsIdempotent ==
  [][StopStep => (rd'.result = "None" /\ gp' = gp /\ dev' = dev /\ (~(thread.started /\ thread.running) => thread' = thread))]_vars

\* stopped twice without the thread ever started
C17_Witness == hist.stops = 2 /\ ~thread.started /\ rd.call = "stop_background_updates" /\ rd.result = "None" /\ gp = NewGamepad

\* the step of update_state that writes the edge flag of a non-init button record
FlagStep == thread.pc = "read" /\ thread'.pc = "level"

(* C18 as stated: a non-init button record sets was_pressed[index] only    *)
(* when the level goes from released to pressed and was_released[index]    *)
(* only when it goes from pressed to released; a record repeating the      *)
(* current level writes neither flag.                                      *)
C18_EdgeFlagsOnlyOnTransitions ==
  [][FlagStep => (gp.pressed_map[thread'.ev.index] = (thread'.ev.value # 0) => (gp'.was_pressed_map = gp.was_pressed_map /\ gp'.was_released_map = gp.was_released_map))]_vars

\* the three writes of an init button record, and its last
InitLevelStep == thread.pc = "read" /\ thread'.pc = "init_was_pressed"
InitPressedStep == thread.pc = "init_was_pressed" /\ thread'.pc = "init_was_released"
InitReleasedStep == thread.pc = "init_was_released" /\ thread'.pc # "init_was_released"

\* map2 is map1 but for the entry of index, which is value
OnlyEntry(map1, map2, index, value) ==
  /\ DOMAIN map2 = DOMAIN map1 \cup {index}
  /\ map2[index] = value
  /\ \A k \in DOMAIN map1 \ {index} : map2[k] = map1[k]

InitButtonEffect ==
  /\ InitLevelStep => (OnlyEntry(gp.pressed_map, gp'.pressed_map, thread'.ev.index, thread'.ev.value # 0) /\ gp'.was_pressed_map = gp.was_pressed_map /\ gp'.was_released_map = gp.was_released_map /\ gp'.axis_map = gp.axis_map)
  /\ InitPressedStep => (OnlyEntry(gp.was_pressed_map, gp'.was_pressed_map, thread.ev.index, FALSE) /\ gp'.pressed_map = gp.pressed_map /\ gp'.was_released_map = gp.was_released_map /\ gp'.axis_map = gp.axis_map)
  /\ InitReleasedStep => (OnlyEntry(gp.was_released_map, gp'.was_released_map, thread.ev.index, FALSE) /\ gp'.pressed_map = gp.pressed_map /\ gp'.was_pressed_map = gp.was_pressed_map /\ gp'.axis_map = gp.axis_map)
  /\ InitReleasedStep => (gp'.pressed_map[thread.ev.index] = (thread.ev.value # 0) /\ ~gp'.was_pressed_map[thread.ev.index] /\ ~gp'.was_released_map[thread.ev.index])

(* C19: a button init event sets pressed[index] to the init value (pressed *)
(* iff the raw value is non-zero), clears was_pressed[index] and           *)
(* was_released[index], and changes no other index and no axis value; when *)
(* it is applied the button, held or not, has no edge pending.             *)
C19_InitButtonEffect == [][InitButtonEffect]_vars

\* PS held when the device is opened: level pressed, no edge pending, the next control reported too
C19_Witness == dev.phys[10] /\ dev.inits >= 2 /\ 10 \in gp.button_event_maps /\ gp.pressed_map[10] /\ ~gp.was_pressed_map[10] /\ ~gp.was_released_map[10]

\* a record of unrecognized type was read
DropStep == hist'.dropped # hist.dropped

(* C20: an event of unrecognized type changes neither the levels, the edge *)
(* flags, the axis values nor the connected flag, raises nothing, and the  *)
(* running pump goes on to read the next record.                           *)
C20_UnknownTypeDropped == [][DropStep => (gp' = gp /\ thread'.exc = "" /\ thread'.pc # "raised" /\ (thread.running => thread' = thread))]_vars

\* a record was applied after one of unrecognized type was dropped, the pump still reading
C20_Witness == hist.dropped >= 1 /\ hist.after_drop /\ thread.pc = "read" /\ thread.running /\ gp.connected /\ is_ready(gp)

-----------------------------------------------------------------------------
(* The contributions a tick owes, from the tracker's state and the mapping *)

\* what entry k adds to its movement axis: its direction when its button is
\* held, the sign of its axis (reversed or not) when the axis is beyond 0.1
Delta(k) ==
  LET a == mapped_commands[k]
  IN  IF a.button # "" /\ a.commands = <<>> /\ a.direction # <<>>
      THEN IF gp.pressed_map[button_index[a.button]] THEN a.direction[1] ELSE 0
      ELSE IF a.axis # <<>> /\ 10 * Abs(gp.axis_map[axis_index[a.axis[1].label]]) > a.axis[1].trigger_if_above * 32767
      THEN (IF gp.axis_map[axis_index[a.axis[1].label]] < 0 THEN -1 ELSE 1) * (IF a.reverse_axis_direction THEN -1 ELSE 1)
      ELSE 0

Active(ax) == {k \in 1..Len(mapped_commands) : mapped_commands[k].movement_axis = ax /\ Delta(k) # 0}

RECURSIVE SumDelta(_)
SumDelta(K) == IF K = {} THEN 0 ELSE LET k == CHOOSE x \in K : TRUE IN Delta(k) + SumDelta(K \ {k})

\* the magnitude source of the last active entry of an axis
LastSource(ax) ==
  LET k == CHOOSE x \in Active(ax) : \A y \in Active(ax) : y <= x
  IN  IF mapped_commands[k].axis # <<>> THEN mapped_commands[k].axis[1] ELSE mapped_commands[k].magnitude_axis[1]

\* the word the tick owes for an axis
OwedWord(ax) == ax \o PyStr(travel_distance(LastSource(ax), gp.axis_map[axis_index[LastSource(ax).label]]), SumDelta(Active(ax)))

WordsOf(ax) == {ax \o PyStr(d, k) : d \in StepSizes, k \in Sums \cup {0}}

(* C21: when several active entries target one movement axis the direction *)
(* accumulated for it is the sum of their contributions, its magnitude     *)
(* source is that of the last of them in list order, and the increment     *)
(* emitted is travel_distance(current value of that source) times the sum. *)
C21_Aggregation ==
  Returned =>
    \A ax \in {"X", "Y"} : Active(ax) # {} =>
      /\ \E k \in 1..Len(main.moves) : main.moves[k].axis = ax /\ main.moves[k].direction = SumDelta(Active(ax)) /\ main.moves[k].magnitude_axis = LastSource(ax)
      /\ SumDelta(Active(ax)) # 0 =>
           /\ \E n \in 1..Len(main.gcode_moves) : main.gcode_moves[n] = OwedWord(ax)
           /\ main.commands = << <<"gcode", Join(<<"G91">> \o main.gcode_moves)>>, G90Command >>

\* the stick (mid step 1) and DPAD-RIGHT (L2 fully pulled: fast step 10) both on X: twice the step of the last source
C21_Witness ==
  /\ Returned /\ Cardinality(Active("X")) = 2 /\ SumDelta(Active("X")) = 2 /\ LastSource("X").label = "L2"
  /\ main.commands = << <<"gcode", "G91 X20">>, <<"gcode", "G90">> >>

(* C22: when the contributions to a movement axis sum to zero no increment *)
(* is emitted for it, and when no axis has a non-zero sum the tick returns *)
(* no command.                                                             *)
C22_OpposingInputsCancel ==
  Returned =>
    /\ \A ax \in {"X", "Y"} : SumDelta(Active(ax)) = 0 => \A n \in 1..Len(main.gcode_moves) : main.gcode_moves[n] \notin WordsOf(ax)
    /\ (\A ax \in {"X", "Y"} : SumDelta(Active(ax)) = 0) => main.commands = <<>>

\* both buttons of the d-pad pair held, the stick at rest: nothing returned
C22_Witness ==
  /\ Returned /\ gp.pressed_map[15] /\ gp.pressed_map[16] /\ gp.axis_map[0] = 0
  /\ Cardinality(Active("X")) = 2 /\ SumDelta(Active("X")) = 0
  /\ main.commands = <<>>

-----------------------------------------------------------------------------
(* Stopping the background thread *)

Stopped == thread.started /\ ~thread.running /\ thread.exc = ""

InsideEvent == thread.pc \in {"level", "init_was_pressed", "init_was_released"}

\* a stopped thread inside update_state never comes back to the read
NoSecondRead == (Stopped /\ thread.pc # "read") => thread'.pc # "read"

\* a stopped thread blocked in the read moves only with a record or the end of the stream
BlockedInRead == (Stopped /\ thread.pc = "read" /\ thread' # thread) => (hist'.after_stop = hist.after_stop + 1 \/ dev'.state = "gone")

(* C23: after stop_background_updates on a running thread the thread reads *)
(* and applies at most one further record and then leaves its loop; until  *)
(* a record (or the end of the stream) arrives it stays blocked in the     *)
(* read.                                                                   *)
C23_StopAfterNextEvent ==
  /\ [](hist.after_stop <= 1)
  /\ []((Stopped /\ hist.after_stop = 1) => (InsideEvent \/ thread.pc = "ended"))
  /\ [][NoSecondRead /\ BlockedInRead]_vars

\* stopped while blocked in the read: one more record applied, then the loop left
C23_Witness == Stopped /\ hist.after_stop = 1 /\ thread.pc = "ended" /\ gp.connected

-----------------------------------------------------------------------------
(* What a tick writes *)

\* a step of get_commands (or of the loop of main around it)
TickStep == main' # main /\ main.pc \notin {"start", "wait_ready"}

\* the entry under evaluation is an edge-triggered button entry
EdgeEntry == main.i \in 1..Len(mapped_commands) /\ mapped_commands[main.i].button # "" /\ ~mapped_commands[main.i].repeat_if_pressed

TickFrame ==
  TickStep =>
    /\ gp'.pressed_map = gp.pressed_map /\ gp'.axis_map = gp.axis_map /\ gp'.was_released_map = gp.was_released_map /\ gp'.connected = gp.connected
    /\ gp'.button_event_maps = gp.button_event_maps /\ gp'.moved_event_map = gp.moved_event_map
    /\ gp'.was_pressed_map # gp.was_pressed_map =>
         /\ EdgeEntry
         /\ gp.was_pressed_map[button_index[mapped_commands[main.i].button]]
         /\ gp'.was_pressed_map = [gp.was_pressed_map EXCEPT ![button_index[mapped_commands[main.i].button]] = FALSE]
    /\ main'.pc = "reset" => EdgeEntry

(* C27: a tick never changes pressed levels, axis values, was_released     *)
(* flags or the connected flag; the only tracker state it changes is the   *)
(* was_pressed flag, cleared, of the edge-triggered button entry it is     *)
(* evaluating, and been_pressed is never entered for a repeat_if_pressed   *)
(* entry.                                                                  *)
C27_TickFrame == [][TickFrame]_vars

\* a tick consumed the press of PS and returned its commands; the release of PS is still flagged
C27_Witness ==
  /\ Returned /\ main.fired = 1 /\ main.commands = mapped_commands[main.i].commands
  /\ 10 \in DOMAIN gp.was_pressed_map /\ ~gp.was_pressed_map[10] /\ gp.was_released_map[10]

-----------------------------------------------------------------------------
(* Pending presses across a short-circuit *)

\* the entries bound to button index b
EntriesOf(b) == {k \in 1..Len(mapped_commands) : mapped_commands[k].button # "" /\ button_index[mapped_commands[k].button] = b}

FlagSet(g, b) == b \in DOMAIN g.was_pressed_map /\ g.was_pressed_map[b]

\* the step clears the pressed flag of b
Cleared(b) == FlagSet(gp, b) /\ ~FlagSet(gp', b)

\* a pressed flag is cleared only by the init record of its button or by the tick that returns the commands bound to it
ClearedOnlyByFiring ==
  \A b \in ButtonIdx : Cleared(b) =>
    \/ thread.pc = "init_was_pressed" /\ thread.ev.index = b /\ main' = main
    \/ /\ main.pc = "reset" /\ main'.pc = "returned"
       /\ main'.fired \in EntriesOf(b)
       /\ main'.commands = mapped_commands[main'.fired].commands

\* the step on which a tick returns fixed commands leaves the flags of the later entries alone
LaterFlagsKept ==
  (main.pc # "returned" /\ main'.pc = "returned" /\ main'.fired # 0) =>
    \A k \in (main'.fired + 1)..Len(mapped_commands) : FlagSet(gp', button_index[mapped_commands[k].button]) = FlagSet(gp, button_index[mapped_commands[k].button])

\* an edge-triggered entry is passed over only when its flag reads False
PassedOnlyIfClear ==
  (main.pc = "button" /\ main' # main /\ main'.pc \in {"button", "returned"} /\ main'.fired # main.i) => ~FlagSet(gp, button_index[mapped_commands[main.i].button])

(* C24: a tick that returns the commands of a fixed-command entry neither  *)
(* reads nor changes the was_pressed flags of the edge-triggered buttons   *)
(* later in the list; the flag of such a button stays set, whether or not  *)
(* the button is released, until a tick returns its commands or an init    *)
(* record of the button is applied; and the next tick that returns fires   *)
(* the first pending entry in list order.                                  *)
C24_ShortCircuitKeepsPending ==
  /\ []((Returned /\ main.fired # 0) => main.i = main.fired)
  /\ []((Returned /\ hist.carried # {}) => (main.fired # 0 /\ \A k \in hist.carried : main.fired <= k))
  /\ [][ClearedOnlyByFiring /\ LaterFlagsKept /\ PassedOnlyIfClear]_vars

\* the second entry, left pending by the tick that fired the first, fires on the next tick with its button released
C24_Witness ==
  /\ Returned /\ main.fired = 2 /\ hist.carried = {2}
  /\ main.commands = mapped_commands[2].commands
  /\ is_ready(gp) /\ dev.inits = Len(InitOrder)
  /\ ~gp.pressed_map[button_index[mapped_commands[2].button]]
  /\ gp.was_released_map[button_index[mapped_commands[2].button]]

-----------------------------------------------------------------------------
(* C25: at most one update thread is inside its loop on a Gamepad: a       *)
(* second start_background_updates raises RuntimeError while the thread    *)
(* has running = True, and one made after stop_background_updates does not *)
(* leave two threads reading the device and writing the state.             *)
C25_SinglePump == ~(thread.stale # <<>> /\ InLoop(thread) /\ InLoop(thread.stale[1]))

-----------------------------------------------------------------------------
(* C26: start_background_updates(wait_for_ready=True) returns only when    *)
(* is_ready() holds or the gamepad is not connected, and it does return    *)
(* once the thread has ended before readiness: a waiting caller whose      *)
(* thread is gone (nothing will change the tracker any more) can leave the *)
(* wait.                                                                   *)
C26_WaitForReadyReturns ==
  (main.pc = "wait_ready" /\ thread.pc \in {"raised", "ended"}) => (is_ready(gp) \/ ~gp.connected)

-----------------------------------------------------------------------------
(* C28: get_next_event honours skip_init over the whole call: with         *)
(* skip_init False it returns the first following record of a recognized   *)
(* type, init records included (so it skips no init record), even after    *)
(* records of unrecognized type; with skip_init True it returns the first  *)
(* following non-init button or axis record.                               *)
C28_SkipInitHonoured ==
  rd.call = "get_next_event" =>
    /\ ~rd.arg => ~rd.skipped_init
    /\ (rd.pc = "idle" /\ rd.result = "event" /\ rd.arg) => rd.event.type \in {"BUTTON", "AXIS"}
    /\ (rd.pc = "idle" /\ rd.result = "event") => rd.event.type \in {"BUTTON", "AXIS", "INIT_BUTTON", "INIT_AXIS"}

=============================================================================
